---- MODULE Spec2Model ----
(***************************************************************************)
(* Dual moving average crossover backtest (src/main.py).                   *)
(*                                                                         *)
(* The strategy class of src/main.py runs inside the replay loop that      *)
(* cerebro.run() drives (src/main.py:138).  One bar of the loop is:        *)
(*   advance the data feed and the indicator lines,                        *)
(*   broker.next(): check the submitted orders, execute the pending ones,  *)
(*   hand the broker's notifications to the strategy (notify_order, and    *)
(*   the trades to the TradeAnalyzer),                                     *)
(*   call the strategy's prenext()/next().                                 *)
(* The broker is the one main.py configures: cash 100000, a percentage     *)
(* commission of 0.001, no cheat-on-close, no slippage, no volume filler.  *)
(*                                                                         *)
(* Money is counted in 1/PerMille of a currency unit, so that a commission *)
(* of 0.001 of an integer price is an integer.  Moving averages are kept   *)
(* as exact fractions num/den; floating point rounding is not modelled.    *)
(***************************************************************************)
EXTENDS Integers, Sequences, FiniteSets, TLC

\* ------------------------------------------------------------------ bounds
\* Number of bars in the longest data feed explored.
MaxBars == 7
\* The strategy's two periods (50 and 200 in params), scaled down so that
\* the feed can be longer than the slow window.
fast_ma_period == 1
slow_ma_period == 2
\* Largest period for which the moving average alone is examined.
MaxPeriod == 3

\* --------------------------------------------------------- program constants
start_portfolio_value == 100000
commission_permille == 1
PerMille == 1000
buy_size == 10

\* Prices a bar's open and close are drawn from.  With 10 units and a cash of
\* 100000, a price of 9990 is the dearest that can still be bought.
Prices == {9000, 9990, 10000}

\* The position sizes a run configuration may ask for (spec, run
\* configuration); the strategy has no parameter that receives it.
PositionSizes == {10, 20}

None == 0

VARIABLES
    pc,             \* where the replay loop is within the current bar
    dataopen,       \* self.datas[0].open[0]: the current bar's open
    dataclose,      \* self.dataclose: the closes of the bars so far
    fast_ma,        \* line of the fast SimpleMovingAverage, one value per bar
    slow_ma,        \* line of the slow SimpleMovingAverage
    nzd,            \* line of CrossOver's NonZeroDifference
    crossover,      \* line of the CrossOver indicator
    order,          \* self.order: None or the index of an order in orders
    orders,         \* every order the broker was given, in creation order
    submitted,      \* broker.submitted: orders waiting for the cash check
    pending,        \* broker.pending: accepted orders waiting for execution
    notifs,         \* broker.notifs: order notifications not yet collected
    orderspending,  \* strategy._orderspending: notifications to deliver
    tradespending,  \* strategy._tradespending: trade notifications to deliver
    trade,          \* the strategy's current Trade object
    ledger,         \* the closed trades the TradeAnalyzer was notified of
    cash,           \* broker.cash
    position,       \* broker position of the data: size and entry price
    positionSize,   \* the position size the run configuration asks for
    equity,         \* broker.getvalue() at the end of each bar, as the analyzers see it
    report          \* what the report after cerebro.run() has printed so far

vars == <<pc, dataopen, dataclose, fast_ma, slow_ma, nzd, crossover, order,
          orders, submitted, pending, notifs, orderspending, tradespending,
          trade, ledger, cash, position, positionSize, equity, report>>

data_vars == <<dataopen, dataclose, fast_ma, slow_ma, nzd, crossover>>
broker_vars == <<orders, submitted, pending, notifs, cash, position>>
trade_vars == <<tradespending, trade, ledger>>

\* ------------------------------------------------------------- line values
\* A line value: NaN until the indicator's minimum period, then num/den.
NaN == [def |-> FALSE, num |-> 0, den |-> 1]
Val(n, d) == [def |-> TRUE, num |-> n, den |-> d]

Sub(a, b) == Val(a.num * b.den - b.num * a.den, a.den * b.den)

\* a < b, a > b on defined values (denominators are positive)
Lt(a, b) == a.num * b.den < b.num * a.den
Gt(a, b) == a.num * b.den > b.num * a.den

Last(line) == line[Len(line)]

RECURSIVE fsum(_)
fsum(s) == IF s = <<>> THEN 0 ELSE s[1] + fsum(Tail(s))

\* data.get(size=period): the last `size` values of the line
get(data, size) == SubSeq(data, Len(data) - size + 1, Len(data))

\* Faulty variant: before the window is full, the mean of the bars so far.
SimpleMovingAverage_partial(data, period) ==
    IF data = <<>> THEN NaN
    ELSE IF Len(data) < period THEN Val(fsum(data), Len(data))
    ELSE Val(fsum(get(data, period)), period)

\* The value a SimpleMovingAverage of `period` has on the current bar.
SimpleMovingAverage(data, period) ==
    IF Len(data) < period THEN NaN
    ELSE Val(fsum(get(data, period)), period)

\* Faulty variant: the plain difference, a zero difference is not skipped.
NonZeroDifference_plain(prev, d0, d1) ==
    IF ~(d0.def /\ d1.def) THEN NaN ELSE Sub(d0, d1)

\* NonZeroDifference: the difference of the two inputs, or the last value of
\* the line when the difference is zero.  prev is the line before this bar.
NonZeroDifference(prev, d0, d1) ==
    IF ~(d0.def /\ d1.def) THEN NaN
    ELSE LET d == Sub(d0, d1)
         IN  IF prev = <<>> \/ ~Last(prev).def THEN d     \* nextstart: seed
             ELSE IF d.num # 0 THEN d ELSE Last(prev)

\* CrossUp and CrossDown: nzd(-1) against 0, and the inputs on this bar.
CrossUp(prevnzd, d0, d1) ==
    IF Lt(prevnzd, Val(0, 1)) /\ Gt(d0, d1) THEN 1 ELSE 0

CrossDown(prevnzd, d0, d1) ==
    IF Gt(prevnzd, Val(0, 1)) /\ Lt(d0, d1) THEN 1 ELSE 0

\* CrossOver = CrossUp - CrossDown, defined one bar after both inputs are.
CrossOver(prev, d0, d1) ==
    IF prev = <<>> \/ ~Last(prev).def \/ ~(d0.def /\ d1.def) THEN NaN
    ELSE Val(CrossUp(Last(prev), d0, d1) - CrossDown(Last(prev), d0, d1), 1)

\* Bars the strategy needs before next() is called: the CrossOver's period.
minperiod ==
    (IF fast_ma_period > slow_ma_period THEN fast_ma_period
     ELSE slow_ma_period) + 1

\* ------------------------------------------------------------------ broker
Abs(x) == IF x < 0 THEN -x ELSE x

\* CommInfo of setcommission(commission=0.001): stock-like, percentage.
getoperationcost(size, price) == Abs(size) * price * PerMille
getcommission(size, price) == Abs(size) * price * commission_permille
profitandloss(size, price, newprice) == size * (newprice - price) * PerMille

\* Position.update(size, price): the new size and price, and how much of
\* `size` opened and how much closed.
PositionUpdate(pos, size, price) ==
    LET oldsize == pos.size
        newsize == pos.size + size
    IN  IF newsize = 0 THEN
            [size |-> 0, price |-> 0, opened |-> 0, closed |-> size]
        ELSE IF oldsize = 0 THEN
            [size |-> newsize, price |-> price, opened |-> size, closed |-> 0]
        ELSE IF (oldsize > 0) = (size > 0) THEN
            [size |-> newsize,
             price |-> (pos.price * oldsize + size * price) \div newsize,
             opened |-> size, closed |-> 0]
        ELSE IF (oldsize > 0) = (newsize > 0) THEN
            [size |-> newsize, price |-> pos.price,
             opened |-> 0, closed |-> size]
        ELSE
            [size |-> newsize, price |-> price,
             opened |-> newsize, closed |-> -oldsize]

Signed(o) == IF o.side = "Buy" THEN o.size ELSE -o.size

\* BackBroker._execute: what executing `size` at `price` does to the cash
\* `c` and the position `pos`.  pprice_orig is the price a closed part is
\* valued at and pnl the profit it realises.
ExecuteCash(c, pos, size, price, pprice_orig, pnl) ==
    LET u == PositionUpdate(pos, size, price)
        afterclose ==
            IF u.closed # 0
            THEN c + getoperationcost(u.closed, pprice_orig) + pnl
                   - getcommission(u.closed, price)
            ELSE c
        afteropen ==
            IF u.opened # 0
            THEN afterclose - getoperationcost(u.opened, price)
                            - getcommission(u.opened, price)
            ELSE afterclose
    IN  [u |-> u, afterclose |-> afterclose, cash |-> afteropen,
         closedcomm |-> IF u.closed # 0
                        THEN getcommission(u.closed, price) ELSE 0,
         openedcomm |-> IF u.opened # 0
                        THEN getcommission(u.opened, price) ELSE 0]

\* Faulty variant: the order is matched at the close of the bar.
MarketPrice_close == dataclose[Len(dataclose)]

\* The price a market order is matched at: no cheat-on-close is set, so it
\* is the open of the bar the broker processes the order on.
MarketPrice == dataopen

NewOrder(side, size) ==
    [side |-> side, size |-> size, status |-> "Submitted",
     hist |-> <<"Created", "Submitted">>,
     created_bar |-> Len(dataclose), created_price |-> Last(dataclose),
     exec_bar |-> 0, exec_price |-> 0, comm |-> 0]

SetStatus(o, st) == [o EXCEPT !.status = st, !.hist = Append(@, st)]

NoTrade == [size |-> 0, price |-> 0, commission |-> 0, pnl |-> 0,
            pnlcomm |-> 0, isclosed |-> FALSE, justopened |-> FALSE,
            baropen |-> 0, barclose |-> 0]

InitRun ==
    /\ pc = "advance"
    /\ dataopen = 0
    /\ dataclose = <<>>
    /\ fast_ma = <<>>
    /\ slow_ma = <<>>
    /\ nzd = <<>>
    /\ crossover = <<>>
    /\ order = None
    /\ orders = <<>>
    /\ submitted = <<>>
    /\ pending = <<>>
    /\ notifs = <<>>
    /\ orderspending = <<>>
    /\ tradespending = <<>>
    /\ trade = NoTrade
    /\ ledger = <<>>
    /\ cash = start_portfolio_value * PerMille
    /\ position = [size |-> 0, price |-> 0]
    /\ equity = <<>>
    /\ report = <<>>

\* A run whose configuration asks for the size the strategy buys.
Init == InitRun /\ positionSize = 10

\* A run under any of the configurations.
InitConfig == InitRun /\ positionSize \in PositionSizes

\* ----------------------------------------------------------- the data feed
\* The feed delivers its next bar and every indicator computes its value.
Advance ==
    /\ pc = "advance"
    /\ Len(dataclose) < MaxBars
    /\ \E o \in Prices, c \in Prices :
        LET cl == Append(dataclose, c)
            f == SimpleMovingAverage(cl, fast_ma_period)
            s == SimpleMovingAverage(cl, slow_ma_period)
        IN  /\ dataopen' = o
            /\ dataclose' = cl
            /\ fast_ma' = Append(fast_ma, f)
            /\ slow_ma' = Append(slow_ma, s)
            /\ nzd' = Append(nzd, NonZeroDifference(nzd, f, s))
            /\ crossover' = Append(crossover, CrossOver(nzd, f, s))
    /\ pc' = "broker"
    /\ UNCHANGED <<order, broker_vars, orderspending, trade_vars, positionSize, equity, report>>

\* The feed is exhausted: cerebro.run() returns.
Stop ==
    /\ pc = "advance"
    /\ pc' = "done"
    /\ UNCHANGED <<data_vars, order, broker_vars, orderspending, trade_vars,
                   positionSize, equity, report>>

\* ------------------------------------------------------- the broker's bar
NoBit == [closed |-> 0, opened |-> 0, price |-> 0, closedcomm |-> 0,
          openedcomm |-> 0, pnl |-> 0]

Notif(o, st, bit) == [ref |-> o, status |-> st, exbit |-> bit]

\* Faulty variant: the submitted orders are dropped without being checked.
CheckSubmitted_skip(q, c, pos, acc) == acc

\* BackBroker.check_submitted over the queue q: every submitted order is
\* executed on paper at its created price, on the cash c and the position
\* pos left by the orders checked before it; it is accepted when the cash
\* that remains is not negative and ends in Margin otherwise.
RECURSIVE CheckSubmitted(_, _, _, _)
CheckSubmitted(q, c, pos, acc) ==
    IF q = <<>> THEN acc
    ELSE LET o == Head(q)
             ord == acc.orders[o]
             r == ExecuteCash(c, pos, Signed(ord), ord.created_price,
                              ord.created_price, 0)
             st == IF r.cash >= 0 THEN "Accepted" ELSE "Margin"
             acc2 == [orders |-> [acc.orders EXCEPT ![o] = SetStatus(@, st)],
                      pending |-> IF r.cash >= 0
                                  THEN Append(acc.pending, o)
                                  ELSE acc.pending,
                      notifs |-> Append(acc.notifs, Notif(o, st, NoBit))]
         IN  CheckSubmitted(Tail(q), r.cash, [size |-> r.u.size,
                                              price |-> r.u.price], acc2)

\* Faulty variant: the broker looks at its submitted orders on every other
\* bar only.
check_submitted_late ==
    /\ pc = "broker"
    /\ LET acc == IF Len(dataclose) % 2 = 1
                  THEN [orders |-> orders, pending |-> pending,
                        notifs |-> notifs]
                  ELSE CheckSubmitted(submitted, cash, position,
                         [orders |-> orders, pending |-> pending,
                          notifs |-> notifs])
       IN  /\ orders' = acc.orders
           /\ pending' = acc.pending
           /\ notifs' = acc.notifs
           /\ pc' = IF acc.pending # <<>> THEN "exec"
                    ELSE IF acc.notifs # <<>> THEN "brokernotify"
                    ELSE "next"
    /\ submitted' = IF Len(dataclose) % 2 = 1 THEN submitted ELSE <<>>
    /\ UNCHANGED <<data_vars, order, cash, position, orderspending,
                   trade_vars, positionSize, equity, report>>

\* broker.next(), first half: the cash check of the submitted orders.
check_submitted ==
    /\ pc = "broker"
    /\ LET acc == CheckSubmitted(submitted, cash, position,
                    [orders |-> orders, pending |-> pending,
                     notifs |-> notifs])
       IN  /\ orders' = acc.orders
           /\ pending' = acc.pending
           /\ notifs' = acc.notifs
           /\ pc' = IF acc.pending # <<>> THEN "exec"
                    ELSE IF acc.notifs # <<>> THEN "brokernotify"
                    ELSE "next"
    /\ submitted' = <<>>
    /\ UNCHANGED <<data_vars, order, cash, position, orderspending,
                   trade_vars, positionSize, equity, report>>

\* Faulty variant: the cash and the position are booked before the cash is
\* found to be short.
Execute_nocheck(ord, p) ==
    LET size == Signed(ord)
        pu == PositionUpdate(position, size, p)
        pnl == profitandloss(-pu.closed, position.price, p)
        r == ExecuteCash(cash, position, size, p, position.price, pnl)
        opened == IF r.cash < 0 THEN 0 ELSE pu.opened
    IN  [cash |-> r.cash,
         position |-> [size |-> pu.size, price |-> pu.price],
         execsize |-> pu.closed + opened,
         margin |-> pu.opened # 0 /\ opened = 0,
         bit |-> [closed |-> pu.closed, opened |-> opened, price |-> p,
                  closedcomm |-> r.closedcomm,
                  openedcomm |-> IF opened # 0 THEN r.openedcomm ELSE 0,
                  pnl |-> pnl]]

\* BackBroker._execute of a market order at price p: the part that closes
\* is always executed, the part that opens only when the cash suffices.
Execute(ord, p) ==
    LET size == Signed(ord)
        pprice_orig == position.price
        pu == PositionUpdate(position, size, p)
        pnl == profitandloss(-pu.closed, pprice_orig, p)
        r == ExecuteCash(cash, position, size, p, pprice_orig, pnl)
        opened == IF r.cash < 0 THEN 0 ELSE pu.opened
        execsize == pu.closed + opened
        newpos == PositionUpdate(position, execsize, p)
        bit == [closed |-> pu.closed, opened |-> opened, price |-> p,
                closedcomm |-> r.closedcomm,
                openedcomm |-> IF opened # 0 THEN r.openedcomm ELSE 0,
                pnl |-> pnl]
    IN  [cash |-> IF r.cash < 0 THEN r.afterclose ELSE r.cash,
         position |-> IF execsize # 0
                      THEN [size |-> newpos.size, price |-> newpos.price]
                      ELSE position,
         execsize |-> execsize,
         margin |-> pu.opened # 0 /\ opened = 0,
         bit |-> bit]

\* broker.next(), second half: the next pending order is matched; a market
\* order is executed in full or ends in Margin, it never stays pending.
try_exec ==
    /\ pc = "exec"
    /\ pending # <<>>
    /\ LET o == Head(pending)
           ord == orders[o]
           x == Execute(ord, MarketPrice)
           done == IF x.execsize = 0 THEN ord
                   ELSE [SetStatus(ord, IF Abs(x.execsize) = ord.size
                                        THEN "Completed" ELSE "Partial")
                         EXCEPT !.exec_bar = Len(dataclose),
                                !.exec_price = MarketPrice,
                                !.comm = x.bit.closedcomm + x.bit.openedcomm]
           n1 == IF x.execsize = 0 THEN notifs
                 ELSE Append(notifs, Notif(o, done.status, x.bit))
       IN  /\ cash' = x.cash
           /\ position' = x.position
           /\ orders' = [orders EXCEPT
                           ![o] = IF x.margin THEN SetStatus(done, "Margin")
                                  ELSE done]
           /\ notifs' = IF x.margin THEN Append(n1, Notif(o, "Margin", NoBit))
                        ELSE n1
    /\ pending' = Tail(pending)
    /\ pc' = IF Tail(pending) # <<>> THEN "exec" ELSE "brokernotify"
    /\ UNCHANGED <<data_vars, order, submitted, orderspending, trade_vars,
                   positionSize, equity, report>>

\* Faulty variant: the trade keeps the last commission instead of the sum.
TradeUpdate_lastcomm(t, size, price, commission) ==
    IF size = 0 THEN t
    ELSE LET oldsize == t.size
             newsize == t.size + size
             grows == Abs(newsize) > Abs(oldsize)
             pnl == IF grows THEN 0
                    ELSE profitandloss(-size, t.price, price)
         IN  [size |-> newsize,
              price |-> IF grows
                        THEN (oldsize * t.price + size * price) \div newsize
                        ELSE t.price,
              commission |-> commission,
              pnl |-> t.pnl + pnl,
              pnlcomm |-> t.pnl + pnl - commission,
              isclosed |-> oldsize # 0 /\ newsize = 0,
              justopened |-> oldsize = 0,
              baropen |-> IF oldsize = 0 THEN Len(dataclose) ELSE t.baropen,
              barclose |-> IF newsize = 0 THEN Len(dataclose)
                           ELSE t.barclose]

\* Trade.update(order, size, price, value, commission, pnl)
TradeUpdate(t, size, price, commission) ==
    IF size = 0 THEN t
    ELSE LET oldsize == t.size
             newsize == t.size + size
             isclosed == oldsize # 0 /\ newsize = 0
             grows == Abs(newsize) > Abs(oldsize)
             pnl == IF grows THEN 0
                    ELSE profitandloss(-size, t.price, price)
         IN  [size |-> newsize,
              price |-> IF grows
                        THEN (oldsize * t.price + size * price) \div newsize
                        ELSE t.price,
              commission |-> t.commission + commission,
              pnl |-> t.pnl + pnl,
              pnlcomm |-> t.pnl + pnl - (t.commission + commission),
              isclosed |-> isclosed,
              justopened |-> oldsize = 0,
              baropen |-> IF oldsize = 0 THEN Len(dataclose) ELSE t.baropen,
              barclose |-> IF isclosed THEN Len(dataclose) ELSE t.barclose]

\* cerebro._brokernotify / Strategy._addnotification: the strategy collects
\* the broker's next notification and books what the order executed into its
\* Trade: the closed part into the current trade, the opened part into the
\* current trade or, when that one is closed, into a new one.
addnotification ==
    /\ pc = "brokernotify"
    /\ notifs # <<>>
    /\ LET n == Head(notifs)
           b == n.exbit
           t1 == TradeUpdate(trade, b.closed, b.price, b.closedcomm)
           p1 == IF b.closed # 0 /\ t1.isclosed
                 THEN Append(tradespending, t1) ELSE tradespending
           t2 == IF b.opened # 0
                 THEN TradeUpdate(IF t1.isclosed THEN NoTrade ELSE t1,
                                  b.opened, b.price, b.openedcomm)
                 ELSE t1
           p2 == IF b.opened # 0 /\ t2.isclosed THEN Append(p1, t2) ELSE p1
           p3 == IF t2.justopened THEN Append(p2, t2) ELSE p2
       IN  IF b.closed = 0 /\ b.opened = 0
           THEN UNCHANGED <<trade, tradespending>>
           ELSE trade' = t2 /\ tradespending' = p3
    /\ orderspending' = Append(orderspending, Head(notifs))
    /\ notifs' = Tail(notifs)
    /\ pc' = IF Tail(notifs) # <<>> THEN "brokernotify" ELSE "notify"
    /\ UNCHANGED <<data_vars, order, orders, submitted, pending, cash,
                   position, ledger, positionSize, equity, report>>

\* Faulty variant: the order tracker is only reset when the order completed.
OrderAfterNotify_completed(st) ==
    IF st = "Completed" THEN None ELSE order

\* ------------------------------------------------------------ the strategy
\* What notify_order leaves in self.order for a notification of status st.
OrderAfterNotify(st) ==
    IF st \in {"Submitted", "Accepted"} THEN order ELSE None

\* Strategy._notify delivers the next order notification: notify_order.
notify_order ==
    /\ pc = "notify"
    /\ orderspending # <<>>
    /\ order' = OrderAfterNotify(Head(orderspending).status)
    /\ orderspending' = Tail(orderspending)
    /\ pc' = IF Tail(orderspending) # <<>> THEN "notify"
             ELSE IF tradespending # <<>> THEN "notify_trade" ELSE "next"
    /\ UNCHANGED <<data_vars, broker_vars, trade_vars, positionSize, equity, report>>

\* Strategy._notify delivers the next trade notification; the TradeAnalyzer
\* counts a closed trade.
notify_trade ==
    /\ pc = "notify_trade"
    /\ tradespending # <<>>
    /\ LET t == Head(tradespending)
       IN  ledger' = IF ~t.justopened /\ t.isclosed
                     THEN Append(ledger, t) ELSE ledger
    /\ tradespending' = Tail(tradespending)
    /\ pc' = IF Tail(tradespending) # <<>> THEN "notify_trade" ELSE "next"
    /\ UNCHANGED <<data_vars, order, broker_vars, orderspending, trade,
                   positionSize, equity, report>>

\* BackBroker.buy/sell: the order is created, submitted and its submission
\* notified; the strategy keeps it in self.order.
Send(side, size) ==
    /\ orders' = Append(orders, NewOrder(side, size))
    /\ submitted' = Append(submitted, Len(orders) + 1)
    /\ notifs' = Append(notifs, Notif(Len(orders) + 1, "Submitted", NoBit))
    /\ order' = Len(orders) + 1

NoSend == UNCHANGED <<orders, submitted, notifs, order>>

\* Faulty variant: the buy reaches the broker twice.
buy_twice ==
    /\ orders' = orders \o <<NewOrder("Buy", buy_size),
                              NewOrder("Buy", buy_size)>>
    /\ submitted' = submitted \o <<Len(orders) + 1, Len(orders) + 2>>
    /\ notifs' = notifs \o <<Notif(Len(orders) + 1, "Submitted", NoBit),
                              Notif(Len(orders) + 2, "Submitted", NoBit)>>
    /\ order' = Len(orders) + 2

\* Faulty variant: the buy takes its size from the run configuration.
buy_configured == Send("Buy", positionSize)

\* self.buy(size=10)
buy == Send("Buy", buy_size)

\* self.close(): an order of the position's size against it
close ==
    IF position.size > 0 THEN Send("Sell", position.size)
    ELSE IF position.size < 0 THEN Send("Buy", -position.size)
    ELSE NoSend

\* Faulty variant: a bearish cross while flat sells short.
Decide_short ==
    IF order # None THEN NoSend
    ELSE IF position.size = 0
         THEN IF Gt(Last(crossover), Val(0, 1)) THEN buy
              ELSE IF Lt(Last(crossover), Val(0, 1))
                   THEN Send("Sell", buy_size) ELSE NoSend
         ELSE IF Lt(Last(crossover), Val(0, 1)) THEN close ELSE NoSend

\* The decision of next() on a bar the indicators are defined on.
Decide ==
    IF order # None THEN NoSend
    ELSE IF position.size = 0
         THEN IF Gt(Last(crossover), Val(0, 1)) THEN buy ELSE NoSend
         ELSE IF Lt(Last(crossover), Val(0, 1)) THEN close ELSE NoSend

\* broker.getvalue(): the cash plus the position valued at the bar's close.
getvalue == cash + position.size * Last(dataclose) * PerMille

\* Faulty variant: while the indicators warm up, prenext() buys at once.
next_warmup_buy ==
    /\ pc = "next"
    /\ IF Len(dataclose) < minperiod
       THEN IF order = None /\ position.size = 0 THEN buy ELSE NoSend
       ELSE Decide
    /\ equity' = Append(equity, getvalue)
    /\ pc' = "advance"
    /\ UNCHANGED <<data_vars, pending, cash, position, orderspending,
                   trade_vars, positionSize, report>>

\* The strategy's call of the bar: prenext() (which does nothing) until the
\* CrossOver has a value, next() from then on; the analyzers then record the
\* bar's portfolio value.
next ==
    /\ pc = "next"
    /\ IF Len(dataclose) < minperiod THEN NoSend ELSE Decide
    /\ equity' = Append(equity, getvalue)
    /\ pc' = "advance"
    /\ UNCHANGED <<data_vars, pending, cash, position, orderspending,
                   trade_vars, positionSize, report>>

\* ---------------------------------------------------------------- the report
RECURSIVE gcd(_, _)
gcd(a, b) == IF b = 0 THEN a ELSE gcd(b, a % b)

\* The return of bar t as the TimeReturn analyzer inside SharpeRatio sees it:
\* the bar's value over the value of the bar before (the starting cash for
\* the first bar), as a fraction in lowest terms.
TimeReturn(t) ==
    LET v == equity[t]
        b == IF t = 1 THEN start_portfolio_value * PerMille ELSE equity[t - 1]
        g == gcd(v, b)
    IN  <<v \div g, b \div g>>

\* A Python object of the report: its type, and its entries if it is a dict.
PyNone == [type |-> "NoneType"]
PyFloat == [type |-> "float"]

\* SharpeRatio.get_analysis(): always a dict; its 'sharperatio' entry is None
\* when the deviation of the returns is zero (no returns, one return, or all
\* returns equal), where the analyzer's division fails.
sharpe_ratio ==
    [type |-> "dict",
     sharperatio |-> IF \E s, t \in DOMAIN equity : TimeReturn(s) # TimeReturn(t)
                     THEN PyFloat ELSE PyNone]

\* TradeAnalyzer.get_analysis(): total.total counts the trades opened;
\* total.open and total.closed exist from the first trade opened and the
\* first trade closed on, and the analysis is closed to new keys at stop().
trade_analysis ==
    LET nclosed == Len(ledger)
        nopen == IF trade.size # 0 THEN 1 ELSE 0
        won == Cardinality({i \in DOMAIN ledger : ledger[i].pnlcomm >= 0})
    IN  IF nclosed > 0
        THEN [total |-> [total |-> nclosed + nopen, open |-> nopen,
                         closed |-> nclosed],
              won |-> [total |-> won]]
        ELSE IF nopen > 0
             THEN [total |-> [total |-> nopen, open |-> nopen]]
             ELSE [total |-> [total |-> 0]]

\* Lines 147-152: the Sharpe ratio's line of the report. Formatting None with
\* '.2f' raises TypeError.
report_sharpe ==
    /\ pc = "done"
    /\ IF sharpe_ratio.type # "NoneType"
       THEN IF sharpe_ratio.sharperatio.type = "float"
            THEN /\ report' = Append(report, "Sharpe Ratio: value")
                 /\ pc' = "report_drawdown"
            ELSE /\ report' = report
                 /\ pc' = "error"
       ELSE /\ report' = Append(report, "Sharpe Ratio: N/A")
            /\ pc' = "report_drawdown"
    /\ UNCHANGED <<data_vars, order, broker_vars, orderspending, trade_vars,
                   positionSize, equity>>

\* Lines 155-162: the DrawDown and the Returns analyzers' lines; their
\* entries always exist.
report_drawdown ==
    /\ pc = "report_drawdown"
    /\ report' = report \o <<"Max Drawdown", "Total Return">>
    /\ pc' = "report_trades"
    /\ UNCHANGED <<data_vars, order, broker_vars, orderspending, trade_vars,
                   positionSize, equity>>

\* Lines 165-179: the TradeAnalyzer's lines. Reading a key the closed
\* analysis does not hold raises KeyError.
report_trades ==
    /\ pc = "report_trades"
    /\ IF "closed" \notin DOMAIN trade_analysis.total
       THEN /\ report' = report
            /\ pc' = "error"
       ELSE IF trade_analysis.total.closed > 0
            THEN /\ report' = report \o <<"Total Closed Trades", "Win Rate">>
                 /\ pc' = "plot"
            ELSE /\ report' = Append(report, "No trades closed")
                 /\ pc' = "plot"
    /\ UNCHANGED <<data_vars, order, broker_vars, orderspending, trade_vars,
                   positionSize, equity>>

Next ==
    \/ Advance
    \/ Stop
    \/ check_submitted
    \/ try_exec
    \/ addnotification
    \/ notify_order
    \/ notify_trade
    \/ next
    \/ report_sharpe
    \/ report_drawdown
    \/ report_trades

Spec == Init /\ [][Next]_vars

\* The same replay, started under every run configuration.
SpecConfig == InitConfig /\ [][Next]_vars

\* ------------------------------------------------------- a malformed feed
\* A price no well-formed bar carries.
MalformedPrices == {0}

\* The feed delivers a bar with a non-positive price: the table yfinance
\* returns goes to PandasData and on to cerebro as it is, and a bar of it is
\* replayed like any other.
AdvanceMalformed ==
    /\ pc = "advance"
    /\ Len(dataclose) < MaxBars
    /\ \E o \in MalformedPrices, c \in MalformedPrices :
        LET cl == Append(dataclose, c)
            f == SimpleMovingAverage(cl, fast_ma_period)
            s == SimpleMovingAverage(cl, slow_ma_period)
        IN  /\ dataopen' = o
            /\ dataclose' = cl
            /\ fast_ma' = Append(fast_ma, f)
            /\ slow_ma' = Append(slow_ma, s)
            /\ nzd' = Append(nzd, NonZeroDifference(nzd, f, s))
            /\ crossover' = Append(crossover, CrossOver(nzd, f, s))
    /\ pc' = "broker"
    /\ UNCHANGED <<order, broker_vars, orderspending, trade_vars,
                   positionSize, equity, report>>

NextAnyFeed == Next \/ AdvanceMalformed

\* The replay of any table, well-formed or not.
SpecAnyFeed == Init /\ [][NextAnyFeed]_vars

\* ------------------------------------------------------------- properties
Outstanding ==
    {i \in DOMAIN orders : orders[i].status \in {"Submitted", "Accepted"}}

Terminal == {"Completed", "Canceled", "Margin", "Rejected"}

\* C1: in every state of the replay at most one order is Submitted or
\* Accepted; next() therefore never adds an order while one is outstanding.
C1_AtMostOneOutstanding == Cardinality(Outstanding) <= 1

\* A second order is outstanding after the first one was resolved.
C1_Witness ==
    /\ Len(orders) >= 2
    /\ orders[Len(orders)].status = "Accepted"
    /\ orders[1].status \in Terminal

\* C2: the position is never short, and an outstanding SELL is never larger
\* than the long position it was issued against.
C2_NeverShort ==
    /\ position.size >= 0
    /\ \A i \in Outstanding :
         orders[i].side = "Sell" =>
            orders[i].size > 0 /\ orders[i].size <= position.size

\* A SELL was issued and filled, and a later BUY ended in Margin.
C2_Witness ==
    \E i, j \in DOMAIN orders :
        /\ orders[i].side = "Sell" /\ orders[i].status = "Completed"
        /\ j > i /\ orders[j].status = "Margin"

\* C3 as stated: every filled order is filled on the bar it was created on,
\* at that bar's close.
C3_FillAtCreatedClose ==
    \A i \in DOMAIN orders :
        orders[i].status = "Completed" =>
            /\ orders[i].exec_bar = orders[i].created_bar
            /\ orders[i].exec_price = orders[i].created_price

\* C3 amended: an order created on bar t is filled on bar t+1, at the open
\* of bar t+1.
C3_FillAtNextOpen ==
    \A i \in DOMAIN orders :
        orders[i].status = "Completed" =>
            /\ orders[i].exec_bar = orders[i].created_bar + 1
            /\ orders[i].exec_bar = Len(dataclose) =>
                   orders[i].exec_price = dataopen

\* A BUY and a SELL were filled at an open that differs from the close of
\* the bar they were created on.
C3_Witness ==
    \E i, j \in DOMAIN orders :
        /\ orders[i].side = "Buy" /\ orders[i].status = "Completed"
        /\ orders[i].exec_price # orders[i].created_price
        /\ orders[j].side = "Sell" /\ orders[j].status = "Completed"
        /\ orders[j].exec_price # orders[j].created_price
        /\ orders[j].exec_bar = Len(dataclose)

\* Both moving averages have a value on bar i (1-based).
BothDefined(i) ==
    i \in DOMAIN fast_ma /\ fast_ma[i].def /\ slow_ma[i].def

\* Numerator of fast - slow on bar i; its sign is the sign of the difference.
diff(i) == Sub(fast_ma[i], slow_ma[i]).num

NoSignal(v) == ~v.def \/ v.num = 0

\* The signal the two-value rule gives for the differences prev and cur.
TwoDiffSignal(prev, cur) ==
    IF prev <= 0 /\ cur > 0 THEN 1
    ELSE IF prev >= 0 /\ cur < 0 THEN -1 ELSE 0

\* C4 as stated: on every bar where both averages are defined the signal is
\* the two-value rule applied to the previous and the current difference,
\* and there is no signal on the first such bar.
C4_LastTwoDiffs ==
    \A i \in DOMAIN crossover :
        BothDefined(i) =>
            IF BothDefined(i - 1)
            THEN crossover[i] = Val(TwoDiffSignal(diff(i - 1), diff(i)), 1)
            ELSE NoSignal(crossover[i])

\* The bars up to j with a non-zero difference, and the sign-carrying value
\* of the latest of them (0 when there is none).
NonZeroBars(j) == {k \in 1..j : BothDefined(k) /\ diff(k) # 0}

LastNonZeroDiff(j) ==
    LET nz == NonZeroBars(j)
    IN  IF nz = {} THEN 0
        ELSE diff(CHOOSE k \in nz : \A m \in nz : m <= k)

\* C4 amended: the signal is BULLISH_CROSS exactly when the current
\* difference is > 0 and the latest non-zero difference of an earlier bar is
\* < 0, BEARISH_CROSS exactly when the current difference is < 0 and the
\* latest non-zero earlier difference is > 0, and NONE otherwise; it has no
\* value before both averages are defined nor on the first bar where they
\* are.
C4_LastNonZeroDiff ==
    \A i \in DOMAIN crossover :
        IF BothDefined(i) /\ BothDefined(i - 1)
        THEN LET last == LastNonZeroDiff(i - 1)
                 cur == diff(i)
             IN  crossover[i] =
                     Val(IF last < 0 /\ cur > 0 THEN 1
                         ELSE IF last > 0 /\ cur < 0 THEN -1
                         ELSE 0, 1)
        ELSE ~crossover[i].def

\* The differences went +, 0, + and the third bar gave no signal, after an
\* earlier bar gave a bullish cross through a zero difference (-, 0, +).
C4_Witness ==
    \E i, j \in DOMAIN crossover :
        /\ BothDefined(i - 2)
        /\ diff(i - 2) > 0 /\ diff(i - 1) = 0 /\ diff(i) > 0
        /\ crossover[i] = Val(0, 1)
        /\ BothDefined(j - 2)
        /\ diff(j - 2) < 0 /\ diff(j - 1) = 0 /\ diff(j) > 0
        /\ crossover[j] = Val(1, 1)

\* The status histories of an order the broker is done with.
ResolvedHistories ==
    {<<"Created", "Submitted", "Accepted", "Completed">>,
     <<"Created", "Submitted", "Accepted", "Margin">>,
     <<"Created", "Submitted", "Margin">>}

\* C5 as stated: when the run has ended every order is in a terminal status
\* and got there through Created, Submitted, Accepted.
C5_AllTerminalAtEnd ==
    pc = "done" =>
        \A i \in DOMAIN orders :
            /\ orders[i].status \in Terminal
            /\ Len(orders[i].hist) = 4
            /\ SubSeq(orders[i].hist, 1, 3) =
                   <<"Created", "Submitted", "Accepted">>

\* C5 amended: an order created on bar t is Submitted until bar t+1 comes;
\* the broker resolves it while bar t+1 is processed, before next() runs, to
\* Completed or Margin after Accepted or to Margin straight after Submitted;
\* an order created on the last bar is still Submitted when the run ends.
C5_ResolvedOnNextBar ==
    \A i \in DOMAIN orders :
        LET o == orders[i]
        IN  /\ o.created_bar = Len(dataclose) =>
                  o.status = "Submitted" /\ o.hist = <<"Created", "Submitted">>
            /\ (\/ Len(dataclose) > o.created_bar + 1
                \/ Len(dataclose) = o.created_bar + 1
                     /\ pc \notin {"broker", "exec"}) =>
                  /\ o.status \in {"Completed", "Margin"}
                  /\ o.hist \in ResolvedHistories
                  /\ o.status = Last(o.hist)

\* The run ended with an order of the last bar still Submitted, after an
\* order was filled and another ended in Margin without being accepted.
C5_Witness ==
    /\ pc = "done"
    /\ \E i, j, k \in DOMAIN orders :
        /\ orders[i].hist = <<"Created", "Submitted", "Accepted", "Completed">>
        /\ orders[j].hist = <<"Created", "Submitted", "Margin">>
        /\ orders[k].status = "Submitted"
        /\ orders[k].created_bar = Len(dataclose)

\* A BUY of order o at `price` costs more than the cash at hand.
TooDear(o, price) ==
    o.side = "Buy" /\
    o.size * price * (PerMille + commission_permille) > cash

\* C6: a BUY that costs more than the cash, at its created price when the
\* broker checks it or at the fill price when the broker executes it, ends in
\* Margin; the step that ends an order in Margin or Rejected changes neither
\* the cash nor the position nor the ledger, and the run goes on: it ends
\* only when the feed has no more bars.
C6_MarginLeavesStateAlone ==
    [][/\ \A i \in DOMAIN orders :
            LET o == orders[i]
                n == orders'[i]
            IN  /\ (o.status = "Submitted" /\ n.status # "Submitted"
                    /\ TooDear(o, o.created_price)) => n.status = "Margin"
                /\ (o.status = "Accepted" /\ n.status # "Accepted"
                    /\ TooDear(o, dataopen)) => n.status = "Margin"
                /\ (o.status \notin {"Margin", "Rejected"}
                    /\ n.status \in {"Margin", "Rejected"}) =>
                        /\ cash' = cash
                        /\ position' = position
                        /\ ledger' = ledger /\ trade' = trade
                        /\ pc' # "done"
       /\ (pc # "done" /\ pc' = "done") => pc = "advance"]_vars

\* A BUY ended in Margin at its fill price, the replay went on and a later
\* BUY was filled.
C6_Witness ==
    \E i, j \in DOMAIN orders :
        /\ orders[i].hist = <<"Created", "Submitted", "Accepted", "Margin">>
        /\ j > i
        /\ orders[j].side = "Buy" /\ orders[j].status = "Completed"

IsFilledBuy(o) == o.side = "Buy" /\ o.status = "Completed"
IsFilledSell(o) == o.side = "Sell" /\ o.status = "Completed"

\* C7: the ledger gets one Trade per filled closing SELL and nothing else;
\* the net result of the k-th Trade is (exit - entry) x size less the
\* commission of the k-th filled BUY and of the k-th filled SELL, each being
\* fill price x size x commission rate.
C7_LedgerMatchesFills ==
    LET buys == SelectSeq(orders, IsFilledBuy)
        sells == SelectSeq(orders, IsFilledSell)
    IN  /\ Len(ledger) <= Len(sells)
        /\ pc \in {"next", "advance", "done"} => Len(ledger) = Len(sells)
        /\ \A k \in DOMAIN ledger :
            /\ buys[k].comm =
                  buys[k].exec_price * buys[k].size * commission_permille
            /\ sells[k].comm =
                  sells[k].exec_price * sells[k].size * commission_permille
            /\ ledger[k].pnlcomm =
                  (sells[k].exec_price - buys[k].exec_price)
                      * sells[k].size * PerMille
                  - (buys[k].comm + sells[k].comm)
            /\ ledger[k].size = 0 /\ ledger[k].isclosed

\* Two round trips were closed, one with a gain and one with a loss.
C7_Witness ==
    /\ Len(ledger) = 2
    /\ \E a, b \in DOMAIN ledger :
          ledger[a].pnlcomm > 0 /\ ledger[b].pnlcomm < 0

RECURSIVE SumRange(_, _, _)
SumRange(s, a, b) == IF a > b THEN 0 ELSE s[a] + SumRange(s, a + 1, b)

\* v is the mean of the closes of the p bars ending with bar n (1-based), or
\* no value when fewer than p bars have come.
IsWindowMean(v, p, n) ==
    IF n < p THEN ~v.def
    ELSE v.def /\ v.num * p = v.den * SumRange(dataclose, n - p + 1, n)

\* C8: for every period p and every bar n the moving average is the mean of
\* the closes of the p bars ending with n, and has no value while n < p; the
\* fast and the slow line of the strategy are each so.
C8_WindowMean ==
    /\ \A n \in 1..Len(dataclose) :
          LET bars == SubSeq(dataclose, 1, n)
          IN  \A p \in 1..MaxPeriod :
                  LET sma == SimpleMovingAverage(bars, p)
                  IN  IsWindowMean(sma, p, n)
    /\ \A n \in DOMAIN fast_ma : IsWindowMean(fast_ma[n], fast_ma_period, n)
    /\ \A n \in DOMAIN slow_ma : IsWindowMean(slow_ma[n], slow_ma_period, n)
    /\ Len(fast_ma) = Len(dataclose) /\ Len(slow_ma) = Len(dataclose)

\* The slow average is undefined on the first bar, defined on the last two
\* with different values, and differs from the fast one.
C8_Witness ==
    /\ Len(dataclose) > MaxPeriod
    /\ ~slow_ma[1].def
    /\ Last(slow_ma).def /\ slow_ma[Len(slow_ma) - 1].def
    /\ Last(slow_ma) # slow_ma[Len(slow_ma) - 1]
    /\ Gt(Last(fast_ma), Last(slow_ma))

\* C9 as stated: every BUY has the size the run configuration asks for.
C9_BuySizeConfigured ==
    \A i \in DOMAIN orders :
        orders[i].side = "Buy" => orders[i].size = positionSize

\* C9 amended: when next() runs flat, with no order outstanding and a
\* bullish cross, it sends one BUY of 10 units, whatever size the
\* configuration asks for; no other step sends a BUY.
C9_BuyTenOnBullishFlat ==
    [][IF /\ pc = "next"
          /\ position.size = 0
          /\ Outstanding = {}
          /\ crossover # <<>> /\ Last(crossover) = Val(1, 1)
       THEN /\ Len(orders') = Len(orders) + 1
            /\ orders'[Len(orders')].side = "Buy"
            /\ orders'[Len(orders')].size = 10
       ELSE \A i \in DOMAIN orders' \ DOMAIN orders :
                orders'[i].side # "Buy"]_vars

\* A BUY of 10 was filled in a run configured for another size.
C9_Witness ==
    /\ positionSize # 10
    /\ \E i \in DOMAIN orders :
          IsFilledBuy(orders[i]) /\ orders[i].size = 10

\* C10: the position goes from flat to long, or from long to flat, only in
\* the step in which the broker completes the BUY, respectively the SELL;
\* no other step (creation, submission, acceptance, Margin, notification)
\* changes it.
C10_StateChangesOnCompletion ==
    [][position' # position =>
          \E i \in DOMAIN orders :
              /\ orders[i].status = "Accepted"
              /\ orders'[i].status = "Completed"
              /\ position.size = 0 => orders[i].side = "Buy"
              /\ position'.size = 0 => orders[i].side = "Sell"
              /\ (position.size = 0) # (position'.size = 0)]_vars

\* Long after a filled BUY that followed a BUY ended in Margin.
C10_Witness ==
    /\ position.size > 0
    /\ \E i, j \in DOMAIN orders :
          /\ orders[i].status = "Margin"
          /\ j > i /\ IsFilledBuy(orders[j])

\* ------------------------------------------------------------------- C11
\* The report's stages after the Sharpe ratio's line.
AfterSharpe == {"error", "report_drawdown", "report_trades", "plot"}

\* C11 (as the specification states it): when the Sharpe ratio is undefined
\* (the analyzer's 'sharperatio' entry is None), the report prints the
\* explicit "N/A" line for it and does not end in an error.
C11_UndefinedSharpePrintsNA ==
    (pc \in AfterSharpe /\ sharpe_ratio.sharperatio = PyNone)
        => /\ Len(report) >= 1
           /\ report[1] = "Sharpe Ratio: N/A"
           /\ ~(pc = "error" /\ report = <<>>)

\* ------------------------------------------------------------------- C12
\* The report has come to the TradeAnalyzer's lines and gone through them,
\* to the plot or to an error there.
AtTradeLines == pc \in {"error", "plot"} /\ Len(report) >= 3

\* C12 (as the specification states it): when no trade was closed during the
\* run (no trade at all, or one position opened and never closed), the
\* report prints the "no trades closed" line, prints no win rate and raises
\* no error.
C12_NoClosedTradesReported ==
    (AtTradeLines /\ ledger = <<>>)
        => /\ pc = "plot"
           /\ Last(report) = "No trades closed"
           /\ \A i \in DOMAIN report : report[i] # "Win Rate"

\* ------------------------------------------------------------------- C13
\* C13: while the sequence has fewer bars than the slow period, the replay
\* goes on to its end without the strategy sending any order: the position
\* is flat, the cash and every recorded portfolio value are the starting
\* cash, no trade is open or recorded, and nothing fails before every bar
\* has been replayed.
C13_TooFewBarsNoTrading ==
    Len(dataclose) < slow_ma_period
        => /\ orders = <<>>
           /\ order = None
           /\ position.size = 0
           /\ cash = start_portfolio_value * PerMille
           /\ \A t \in DOMAIN equity : equity[t] = start_portfolio_value * PerMille
           /\ trade = NoTrade
           /\ ledger = <<>>
           /\ pc # "error" \/ Len(equity) = Len(dataclose)

\* A sequence one bar short of the slow period has been replayed to its end.
C13_Witness ==
    /\ pc = "done"
    /\ Len(dataclose) >= 1
    /\ Len(dataclose) = slow_ma_period - 1
    /\ Len(equity) = Len(dataclose)

\* ------------------------------------------------------------------- C14
\* The feed hands the replay one bar at a time, so two bar sequences that
\* agree on bars 0..t share the state reached at the end of bar t, and they
\* differ on whatever a step of a later bar still writes. What bars 0..t
\* alone determine is thus what no step of a later bar changes.

\* What next() decided when it created the order.
Decided(o) == <<o.side, o.size, o.created_bar, o.created_price>>

\* What the broker did with the order.
Fill(o) == <<o.status = "Completed", o.exec_bar, o.exec_price, o.comm>>

\* The step belongs to a bar more than n bars after the order's own.
LaterBar(o, n) == o.created_bar + n < Len(dataclose')

\* The values recorded so far stay as they are.
EquityKept ==
    /\ Len(equity') >= Len(equity)
    /\ \A t \in DOMAIN equity : equity'[t] = equity[t]

\* C14 (as the specification states it): the orders created on bars 0..t,
\* the fills applied to them and the equity recorded through bar t are
\* determined by bars 0..t: no step of a later bar changes them.
C14_FixedByItsOwnBar ==
    [][/\ \A i \in DOMAIN orders :
              LaterBar(orders[i], 0) =>
                  /\ Decided(orders'[i]) = Decided(orders[i])
                  /\ Fill(orders'[i]) = Fill(orders[i])
       /\ EquityKept]_vars

\* C14 amended: the orders created on bars 0..t and the equity recorded
\* through bar t are determined by bars 0..t, and so are the fills of the
\* orders created before bar t; the fill of the order created on bar t is
\* determined by bars 0..t+1. An order is created and a value is recorded
\* for the bar being replayed, never for a later one.
C14_FixedByNextBar ==
    [][/\ \A i \in DOMAIN orders :
              /\ LaterBar(orders[i], 0) =>
                     Decided(orders'[i]) = Decided(orders[i])
              /\ LaterBar(orders[i], 1) =>
                     /\ Fill(orders'[i]) = Fill(orders[i])
                     /\ orders'[i].status = orders[i].status
       /\ \A i \in DOMAIN orders' \ DOMAIN orders :
              orders'[i].created_bar = Len(dataclose)
       /\ EquityKept
       /\ Len(equity') <= Len(dataclose')]_vars

\* An order created on one bar was filled on the next at a price its own bar
\* does not hold, and later bars have been replayed since.
C14_Witness ==
    \E i \in DOMAIN orders :
        /\ orders[i].status = "Completed"
        /\ orders[i].exec_price # orders[i].created_price
        /\ orders[i].created_bar + 2 < Len(dataclose)
        /\ Len(equity) > orders[i].created_bar + 2

\* ------------------------------------------------------------------- C16
\* cerebro.run() has returned.
ReplayOver == pc \in {"done", "error", "report_drawdown", "report_trades", "plot"}

\* The bars on which the CrossOver line shows a bullish, a bearish cross.
Bulls == {t \in DOMAIN crossover : Gt(crossover[t], Val(0, 1))}
Bears == {t \in DOMAIN crossover : Lt(crossover[t], Val(0, 1))}

\* The crosses alternate (they always do) and start with a bullish one, as
\* many bullish as bearish.
BullsThenBears ==
    /\ Cardinality(Bulls) = Cardinality(Bears)
    /\ \A r \in Bears : \E b \in Bulls : b < r

\* One bullish cross and no bearish cross after it.
OneBullNoBearAfter ==
    /\ Cardinality(Bulls) = 1
    /\ \A b \in Bulls : \A r \in Bears : r < b

\* The cash was enough for every BUY: none ended in Margin.
CashSufficient == \A i \in DOMAIN orders : orders[i].status # "Margin"

\* The run ended flat with k closed Trades, each charged on both fills.
FlatWithTrades(k) ==
    LET buys == SelectSeq(orders, IsFilledBuy)
        sells == SelectSeq(orders, IsFilledSell)
    IN  /\ position.size = 0
        /\ trade.size = 0
        /\ Len(ledger) = k
        /\ Len(buys) = k /\ Len(sells) = k
        /\ \A n \in DOMAIN ledger :
              /\ buys[n].comm > 0 /\ sells[n].comm > 0
              /\ ledger[n].commission = buys[n].comm + sells[n].comm

\* The run ended with one completed BUY, the position open, no closed Trade
\* and no order refused.
OpenWithOneBuy ==
    /\ Len(orders) = 1
    /\ IsFilledBuy(orders[1])
    /\ position.size = buy_size
    /\ trade.size = buy_size
    /\ ledger = <<>>

\* C16 (as the specification states it): with k bullish and k bearish
\* crosses alternating and cash enough for every BUY the run ends flat with
\* exactly k closed Trades, commission charged on both fills of each; with
\* one bullish cross and no bearish cross after it the run ends with one
\* completed BUY, no closed Trade, the position open and no order refused.
C16_CrossesMakeTrades ==
    (ReplayOver /\ CashSufficient)
        => /\ BullsThenBears => FlatWithTrades(Cardinality(Bulls))
           /\ OneBullNoBearAfter => OpenWithOneBuy

\* No cross falls on the last bar of the sequence.
NoCrossOnLastBar == Len(dataclose) \notin Bulls \cup Bears

\* C16 amended: the same, for sequences whose last bar carries no cross: an
\* order created on the last bar is never filled.
C16_CrossesBeforeLastBarMakeTrades ==
    (ReplayOver /\ CashSufficient /\ NoCrossOnLastBar)
        => /\ BullsThenBears => FlatWithTrades(Cardinality(Bulls))
           /\ OneBullNoBearAfter => OpenWithOneBuy

\* Two bullish and two bearish crosses were replayed to the end of a run
\* whose last bar has no cross.
C16_Witness ==
    /\ ReplayOver /\ CashSufficient /\ NoCrossOnLastBar
    /\ BullsThenBears
    /\ Cardinality(Bulls) = 2
    /\ Len(ledger) = 2

\* ------------------------------------------------------------------- C17
\* C17 (as the specification states it): a malformed input table (here: a
\* bar with a non-positive price) makes the run abort before any bar is
\* processed, so no bar that reaches the broker, the indicators' lines or
\* next() is malformed.
C17_MalformedInputAborts ==
    /\ \A t \in DOMAIN dataclose : dataclose[t] \notin MalformedPrices
    /\ Len(dataclose) > 0 => dataopen \notin MalformedPrices

\* ------------------------------------------------------------------- C18
\* The stages of a bar in which a resolved order's notification is still on
\* its way to notify_order.
NotificationOnItsWay == {"exec", "brokernotify", "notify"}

\* The lock is held on an order that is outstanding, and every outstanding
\* order holds it; once the order's terminal notification is delivered the
\* lock is free.
LockWhileOutstanding ==
    /\ \A i \in Outstanding : order = i
    /\ (order # None /\ pc \notin NotificationOnItsWay) => order \in Outstanding

\* notify_order keeps self.order on Submitted and Accepted and clears it on
\* every other status.
NotifyOrderStep ==
    (pc = "notify" /\ orderspending # <<>> /\ orderspending' # orderspending) =>
        IF Head(orderspending).status \in {"Submitted", "Accepted"}
        THEN order' = order
        ELSE order' = None

\* next() on a bullish cross with a flat position and a BUY that ended in
\* Margin behind it creates a new BUY.
BuyAgainAfterMargin ==
    (/\ pc = "next" /\ pc' = "advance"
     /\ Len(dataclose) >= minperiod
     /\ position.size = 0
     /\ Gt(Last(crossover), Val(0, 1))
     /\ orders # <<>> /\ Last(orders).status = "Margin")
        => /\ Len(orders') = Len(orders) + 1
           /\ Last(orders').side = "Buy"
           /\ order' = Len(orders')

\* C18: notify_order leaves self.order unchanged on Submitted and Accepted
\* and clears it on every other status; the lock is held while the
\* strategy's order is outstanding and is free once its terminal status has
\* been notified, so that after a BUY ended in Margin the next bullish cross
\* creates a BUY again.
C18_LockFollowsOrder ==
    /\ []LockWhileOutstanding
    /\ [][NotifyOrderStep /\ BuyAgainAfterMargin]_vars

\* A BUY ended in Margin and a later bullish cross created another BUY,
\* which now holds the lock.
C18_Witness ==
    /\ Len(orders) >= 2
    /\ orders[Len(orders) - 1].status = "Margin"
    /\ Last(orders).side = "Buy"
    /\ order = Len(orders)
    /\ order \in Outstanding

\* ------------------------------------------------------------------- C19
\* The sides of the filled orders, in the order of their creation.
RECURSIVE FilledSides(_)
FilledSides(os) ==
    IF os = <<>> THEN <<>>
    ELSE IF Head(os).status = "Completed"
         THEN <<Head(os).side>> \o FilledSides(Tail(os))
         ELSE FilledSides(Tail(os))

\* C19: the position is 0 or 10 units in every state; the filled orders
\* alternate BUY, SELL, BUY, ... starting with a BUY, each of 10 units; the
\* position is 10 after a filled BUY and exactly 0 after a filled closing
\* SELL.
C19_ZeroOrTenAlternating ==
    LET sides == FilledSides(orders)
    IN  /\ position.size \in {0, buy_size}
        /\ \A n \in DOMAIN sides :
              sides[n] = IF n % 2 = 1 THEN "Buy" ELSE "Sell"
        /\ \A i \in DOMAIN orders :
              orders[i].status = "Completed" => orders[i].size = buy_size
        /\ position.size = IF Len(sides) % 2 = 1 THEN buy_size ELSE 0

\* Two BUYs and two closing SELLs were filled and the position is flat
\* again.
C19_Witness ==
    /\ FilledSides(orders) = <<"Buy", "Sell", "Buy", "Sell">>
    /\ position.size = 0

\* ------------------------------------------------------------------- C20
\* When next() is about to be called, every order created on an earlier bar
\* has been notified through to a terminal status and self.order is empty.
ResolvedBeforeNext ==
    pc = "next" =>
        /\ order = None
        /\ orderspending = <<>>
        /\ \A i \in DOMAIN orders : orders[i].status \in Terminal

\* next() never returns at its first test (lines 74-75): a bullish cross
\* with a flat position creates a BUY and a bearish cross with an open
\* position creates the closing SELL.
NoCrossDropped ==
    (pc = "next" /\ pc' = "advance" /\ Len(dataclose) >= minperiod) =>
        /\ (position.size = 0 /\ Gt(Last(crossover), Val(0, 1))) =>
              /\ Len(orders') = Len(orders) + 1
              /\ Last(orders').side = "Buy"
        /\ (position.size # 0 /\ Lt(Last(crossover), Val(0, 1))) =>
              /\ Len(orders') = Len(orders) + 1
              /\ Last(orders').side = "Sell"

\* C20: an order created in next() on bar t has been notified through to
\* its terminal status, and the lock cleared, before next() runs for bar
\* t+1; self.order is empty at the start of every call of next(), the early
\* return of the gate is never taken and no cross is dropped because an
\* order was pending.
C20_NoOrderPendingAtNext ==
    /\ []ResolvedBeforeNext
    /\ [][NoCrossDropped]_vars

\* next() is about to run on a bar with a bearish cross, right after the BUY
\* of the bar before was filled and notified.
C20_Witness ==
    /\ pc = "next"
    /\ position.size = buy_size
    /\ Lt(Last(crossover), Val(0, 1))
    /\ IsFilledBuy(Last(orders))
    /\ Last(orders).created_bar = Len(dataclose) - 1

====
